---- MODULE Spec2Model ----
(***************************************************************************)
(* State-machine model of picoW-app/bynav_GNSS.py: the GPGGA parser        *)
(* (parse_gpgga), the bootstrap wait and NTRIP handshake (gnss_setup) and  *)
(* the relay loop (gnss_task).                                             *)
(*                                                                         *)
(* Text is modelled as a sequence of one-character strings; the tokens     *)
(* "CR", "LF" and "xFF" stand for the bytes 0x0D, 0x0A and a byte that is  *)
(* not valid UTF-8.  Coordinates are kept in thousandths of a minute       *)
(* (degrees * 60000 + minutes * 1000), an exact image of                   *)
(* degrees + minutes / 60 for inputs with at most three decimals.          *)
(***************************************************************************)
EXTENDS Integers, Sequences, FiniteSets, TLC

VARIABLES
    pc,            \* position of the running coroutine
    clock,         \* real time elapsed since gnss_task was entered, in ms
    boot,          \* value of time.ticks_ms() when gnss_task was entered
    last_gga_ms,   \* gnss_task: throttle clock (a ticks_ms value)
    state,         \* data_queue.state: the external stop signal
    uart_rx,       \* lines waiting in the UART receive buffer
    uart_tx,       \* blocks written to the UART so far
    sock_in,       \* what the socket offers to the next poll/recv
    sock_out,      \* what was sent on the socket so far
    sock_open,     \* the socket has been created and not closed
    gnss_queue,    \* data_queue.gnss_queue: records enqueued so far
    rtk_line,      \* the line last read from the UART (initial_GPGGA, rtk_line)
    result,        \* return value of the last parse_gpgga call
    sentence,      \* argument of the last parse_gpgga call
    given,         \* the fields the line last read was built from
    tick,          \* what the last loop iteration did
    ticks,         \* number of loop iterations run
    gga,           \* gnss_setup: the accepted bootstrap sentence
    i,             \* gnss_setup: count of rejected GGA lines
    poller,        \* gnss_task: the objects registered with the poller
    cfg,           \* password.NTRIP_CONFIG
    peer           \* the address the socket was connected to

vars == << pc, clock, boot, last_gga_ms, state, uart_rx, uart_tx, sock_in,
           sock_out, sock_open, gnss_queue, rtk_line, result, sentence,
           given, tick, ticks, gga, i, poller, cfg, peer >>

-----------------------------------------------------------------------------
(* Bounds of the model *)

MaxTicks == 3
MaxRx == 2
MaxBlocks == 2
MaxI == 2

-----------------------------------------------------------------------------
(* Python values *)

None == [kind |-> "None"]

Raise(e) == [kind |-> "raise", exc |-> e]

Num(v) == [kind |-> "int", val |-> v]

Digits == {"0", "1", "2", "3", "4", "5", "6", "7", "8", "9"}

DigitVal(c) ==
    CASE c = "0" -> 0 [] c = "1" -> 1 [] c = "2" -> 2 [] c = "3" -> 3
      [] c = "4" -> 4 [] c = "5" -> 5 [] c = "6" -> 6 [] c = "7" -> 7
      [] c = "8" -> 8 [] c = "9" -> 9

Whitespace == {" ", "CR", "LF"}

BadByte == "xFF"

(* F applied to the value of v, with v evaluated once *)
Bind(v, F(_)) == CHOOSE r \in {F(x) : x \in {v}} : TRUE

(* s[a..b] with Python's clipping of out-of-range slice ends *)
Slice(s, a, b) ==
    LET hi == IF b > Len(s) THEN Len(s) ELSE b
    IN  IF a > hi THEN << >> ELSE SubSeq(s, a, hi)

(* str.strip() *)
strip(s) ==
    IF \A k \in 1..Len(s) : s[k] \in Whitespace THEN << >>
    ELSE SubSeq(s,
                CHOOSE k \in 1..Len(s) :
                    /\ s[k] \notin Whitespace
                    /\ \A m \in 1..(k - 1) : s[m] \in Whitespace,
                CHOOSE k \in 1..Len(s) :
                    /\ s[k] \notin Whitespace
                    /\ \A m \in (k + 1)..Len(s) : s[m] \in Whitespace)

(* the members of a set of numbers in increasing order *)
Sorted(P) ==
    [j \in 1..Cardinality(P) |->
        CHOOSE p \in P : Cardinality({q \in P : q < p}) = j - 1]

(* the text between the consecutive separators at the positions cs *)
split_at(s, cs) ==
    [j \in 1..(Len(cs) + 1) |->
        Slice(s, (IF j = 1 THEN 0 ELSE cs[j - 1]) + 1,
                 (IF j = Len(cs) + 1 THEN Len(s) + 1 ELSE cs[j]) - 1)]

(* str.split(',') *)
split(s) ==
    Bind(Sorted({k \in 1..Len(s) : s[k] = ","}),
         LAMBDA cs : split_at(s, cs))

(* a variant that finds the prefix on every line *)
startswith_any(s, p) == TRUE

(* bytes.startswith(prefix) *)
startswith(s, p) == Len(s) >= Len(p) /\ SubSeq(s, 1, Len(p)) = p

(* bytes.decode(): UnicodeError on a byte that is not UTF-8 *)
decode(b) ==
    IF \E k \in 1..Len(b) : b[k] = BadByte
    THEN Raise("UnicodeError")
    ELSE [kind |-> "str", val |-> b]

(* value of a non-empty digit string *)
DigitsValue(d) ==
    LET V[k \in 0..Len(d)] ==
            IF k = 0 THEN 0 ELSE V[k - 1] * 10 + DigitVal(d[k])
    IN  V[Len(d)]

AllDigits(d) == \A k \in 1..Len(d) : d[k] \in Digits

(* int(str): surrounding whitespace ignored, optional sign, then digits *)
int_stripped(t) ==
    LET signed == Len(t) > 0 /\ t[1] \in {"+", "-"}
        d == IF signed THEN Slice(t, 2, Len(t)) ELSE t
    IN  IF Len(d) = 0 \/ ~AllDigits(d) THEN Raise("ValueError")
        ELSE Num(IF signed /\ t[1] = "-" THEN -DigitsValue(d)
                 ELSE DigitsValue(d))

py_int(s) == Bind(strip(s), LAMBDA t : int_stripped(t))

(* float(str) in thousandths: optional sign, digits with at most one point *)
(* and at least one digit; the fraction is read to three places            *)
float_stripped(t) ==
    LET signed == Len(t) > 0 /\ t[1] \in {"+", "-"}
        d == IF signed THEN Slice(t, 2, Len(t)) ELSE t
        dots == {k \in 1..Len(d) : d[k] = "."}
        dot == IF dots = {} THEN Len(d) + 1 ELSE CHOOSE k \in dots : TRUE
        whole == Slice(d, 1, dot - 1)
        frac == Slice(d, dot + 1, Len(d))
        frac3 == Slice(frac \o << "0", "0", "0" >>, 1, 3)
        mag == DigitsValue(whole) * 1000 + DigitsValue(frac3)
    IN  IF Cardinality(dots) > 1 \/ Len(whole) + Len(frac) = 0
           \/ ~AllDigits(whole) \/ ~AllDigits(frac)
        THEN Raise("ValueError")
        ELSE Num(IF signed /\ t[1] = "-" THEN -mag ELSE mag)

py_float(s) == Bind(strip(s), LAMBDA t : float_stripped(t))

-----------------------------------------------------------------------------
(* parse_gpgga *)

GPGGA == << "$", "G", "P", "G", "G", "A" >>

QUALITY_MIN == 4

LAT_DEG_CHARS == 2

LON_DEG_CHARS == 3

(* a variant that catches ValueError only *)
parse_caught_value_only == {"ValueError"}

(* the exception classes the except clause of parse_gpgga catches *)
parse_caught == {"ValueError", "IndexError"}

(* a variant that also rejects QUALITY_MIN itself *)
below_gate_inclusive(q) == q <= QUALITY_MIN

(* a variant that lets the quality below QUALITY_MIN through *)
below_gate_one_less(q) == q < QUALITY_MIN - 1

(* line 82: fix_quality < 4 *)
below_gate(q) == q < QUALITY_MIN

(* parts[k] of a Python list (0-indexed): IndexError past the end *)
item(parts, k) ==
    IF k + 1 > Len(parts) THEN Raise("IndexError")
    ELSE [kind |-> "str", val |-> parts[k + 1]]

(* degrees + minutes / 60 in thousandths of a minute, negated if `neg` *)
coord_value(deg, min, neg) ==
    IF deg.kind = "raise" THEN deg
    ELSE IF min.kind = "raise" THEN min
    ELSE Num(IF neg THEN -(deg.val * 60000 + min.val)
             ELSE deg.val * 60000 + min.val)

(* a variant that always takes two characters of degrees *)
decode_coord_two_chars(raw, n, dir, neg) ==
    Bind(<< py_int(Slice(raw, 1, 2)), py_float(Slice(raw, 3, Len(raw))) >>,
         LAMBDA dm : coord_value(dm[1], dm[2], dir = << neg >>))

(* int(raw[:n]) + float(raw[n:]) / 60, negated for the hemisphere `neg` *)
decode_coord(raw, n, dir, neg) ==
    Bind(<< py_int(Slice(raw, 1, n)), py_float(Slice(raw, n + 1, Len(raw))) >>,
         LAMBDA dm : coord_value(dm[1], dm[2], dir = << neg >>))

(* lines 84-107, for the fix quality q *)
parse_coords(parts, q) ==
    IF parts[3] = << >> \/ parts[5] = << >> THEN None
    ELSE Bind(<< decode_coord(parts[3], LAT_DEG_CHARS, parts[4], "S"),
                 decode_coord(parts[5], LON_DEG_CHARS, parts[6], "W") >>,
              LAMBDA ll :
                  IF ll[1].kind = "raise" THEN ll[1]
                  ELSE IF ll[2].kind = "raise" THEN ll[2]
                  ELSE [kind |-> "fix", lat |-> ll[1].val, lon |-> ll[2].val,
                        fix_quality |-> q])

(* the body of the try block *)
parse_try(parts) ==
    IF Len(parts) < 7 THEN item(parts, 6)
    ELSE Bind(py_int(parts[7]),
              LAMBDA fix_quality :
                  IF fix_quality.kind = "raise" THEN fix_quality
                  ELSE IF below_gate(fix_quality.val) THEN None
                  ELSE parse_coords(parts, fix_quality.val))

(* the except clause *)
parse_except(r) ==
    IF r.kind = "raise" /\ r.exc \in parse_caught THEN None ELSE r

parse_parts(parts) ==
    IF parts[1] # GPGGA THEN None
    ELSE Bind(parse_try(parts), LAMBDA r : parse_except(r))

parse_gpgga(s) == Bind(split(s), LAMBDA parts : parse_parts(parts))

-----------------------------------------------------------------------------
(* Input lines.  A line is built from the fields of `given`; each table    *)
(* pairs the text of a field with its hand-decoded value.                  *)

CRLF == << "CR", "LF" >>

(* ','.join(fields) *)
join(fields) ==
    LET J[k \in 0..Len(fields)] ==
            IF k = 0 THEN << >>
            ELSE IF k = 1 THEN fields[1]
            ELSE J[k - 1] \o << "," >> \o fields[k]
    IN  J[Len(fields)]

GPRMC == << "$", "G", "P", "R", "M", "C" >>

UTC == << "1", "2", "3", "5", "1", "9" >>

LAT1 == << "4", "8", "0", "7", ".", "0", "3", "8" >>

LAT2 == << "6", "0", "3", "0", ".", "5" >>

LAT3 == << "0", "0", "0", "0", ".", "0", "0", "0" >>

LAT4 == << "a", "b", "0", "7", ".", "0", "3", "8" >>

LAT5 == << "4", "8" >>

LAT6 == << "4", "8", "x", "7", ".", "0", "3", "8" >>

LON1 == << "0", "1", "1", "3", "1", ".", "0", "0", "0" >>

LON2 == << "1", "2", "3", "4", "5", ".", "6", "7", "8" >>

LON3 == << "0", "1", "1" >>

LON4 == << "0", "1", "1", "3", "a", ".", "0", "0", "0" >>

Tags == { GPGGA, GPGGA \o << "X" >>, GPRMC }

QualCases ==
    { [s |-> << >>, ok |-> FALSE, v |-> 0],
      [s |-> << "x" >>, ok |-> FALSE, v |-> 0],
      [s |-> << "0" >>, ok |-> TRUE, v |-> 0],
      [s |-> << "0", "0" >>, ok |-> TRUE, v |-> 0],
      [s |-> << "1" >>, ok |-> TRUE, v |-> 1],
      [s |-> << "2" >>, ok |-> TRUE, v |-> 2],
      [s |-> << "3" >>, ok |-> TRUE, v |-> 3],
      [s |-> << "4" >>, ok |-> TRUE, v |-> 4],
      [s |-> << "0", "4" >>, ok |-> TRUE, v |-> 4],
      [s |-> << "5" >>, ok |-> TRUE, v |-> 5],
      [s |-> << "6" >>, ok |-> TRUE, v |-> 6],
      [s |-> << "7" >>, ok |-> TRUE, v |-> 7],
      [s |-> << "8" >>, ok |-> TRUE, v |-> 8] }

LatCases ==
    { [s |-> LAT1, ok |-> TRUE, deg |-> 48, milli |-> 7038],
      [s |-> LAT2, ok |-> TRUE, deg |-> 60, milli |-> 30500],
      [s |-> LAT3, ok |-> TRUE, deg |-> 0, milli |-> 0],
      [s |-> << >>, ok |-> FALSE, deg |-> 0, milli |-> 0],
      [s |-> LAT4, ok |-> FALSE, deg |-> 0, milli |-> 0],
      [s |-> LAT5, ok |-> FALSE, deg |-> 0, milli |-> 0],
      [s |-> LAT6, ok |-> FALSE, deg |-> 0, milli |-> 0] }

LonCases ==
    { [s |-> LON1, ok |-> TRUE, deg |-> 11, milli |-> 31000],
      [s |-> LON2, ok |-> TRUE, deg |-> 123, milli |-> 45678],
      [s |-> << >>, ok |-> FALSE, deg |-> 0, milli |-> 0],
      [s |-> LON3, ok |-> FALSE, deg |-> 0, milli |-> 0],
      [s |-> LON4, ok |-> FALSE, deg |-> 0, milli |-> 0] }

LatDirs == { << "N" >>, << "S" >> }

LonDirs == { << "E" >>, << "W" >>, << "w" >> }

FieldCounts == {1, 6, 7, 15}

Eols == { << >>, CRLF }

(* the fifteen fields of a GGA sentence with the fields of g filled in *)
Fields(g) ==
    << g.tag, UTC, g.lat.s, g.latdir, g.lon.s, g.londir, g.qual.s,
       << "0", "8" >>, << "0", ".", "9" >>, << "5", "4", "5", ".", "4" >>,
       << "M" >>, << "4", "6", ".", "9" >>, << "M" >>, << >>, << >> >>

Line(g) == join(SubSeq(Fields(g), 1, g.n)) \o g.eol

Givens(tags, counts, quals, lats, latdirs, lons, londirs, eols) ==
    { [tag |-> t, n |-> c, qual |-> q, lat |-> a, latdir |-> ad,
       lon |-> o, londir |-> od, eol |-> e] :
        t \in tags, c \in counts, q \in quals, a \in lats, ad \in latdirs,
        o \in lons, od \in londirs, e \in eols }

NoGiven ==
    [tag |-> << >>, n |-> 0, qual |-> [s |-> << >>, ok |-> FALSE, v |-> 0],
     lat |-> [s |-> << >>, ok |-> FALSE, deg |-> 0, milli |-> 0],
     latdir |-> << >>,
     lon |-> [s |-> << >>, ok |-> FALSE, deg |-> 0, milli |-> 0],
     londir |-> << >>, eol |-> << >>]

Q(s) == CHOOSE c \in QualCases : c.s = s

MkGiven(tag, n, q, lat, latdir, lon, londir, eol) ==
    [tag |-> tag, n |-> n, qual |-> Q(q),
     lat |-> CHOOSE c \in LatCases : c.s = lat, latdir |-> latdir,
     lon |-> CHOOSE c \in LonCases : c.s = lon, londir |-> londir,
     eol |-> eol]

N == << "N" >>

S == << "S" >>

E == << "E" >>

W == << "W" >>

(* what a reading of the fields by hand says about the line built from g *)
HasTag(g) == g.tag = GPGGA

StartsWithTag(g) == g.tag \in {GPGGA, GPGGA \o << "X" >>}

HasQuality(g) == g.n >= 7 /\ g.qual.ok

HasCoords(g) == g.n >= 7 /\ g.lat.ok /\ g.lon.ok

WellFormed(g) == HasTag(g) /\ HasQuality(g) /\ HasCoords(g)

HandLat(g) ==
    LET v == g.lat.deg * 60000 + g.lat.milli
    IN  IF g.latdir = << "S" >> THEN -v ELSE v

HandLon(g) ==
    LET v == g.lon.deg * 60000 + g.lon.milli
    IN  IF g.londir = << "W" >> THEN -v ELSE v

NoConfig == [username |-> "", password |-> "", mountpoint |-> "",
             host |-> "", port |-> 0]

NoPeer == [host |-> "", port |-> 0]

NoTick == [event |-> "none", exit |-> "none", read |-> FALSE,
           tagged |-> FALSE, sent |-> "none", parsed |-> FALSE,
           pushed |-> FALSE]

-----------------------------------------------------------------------------
(* ParseSpec: parse_gpgga applied to one line *)

ParseInputs ==
    Givens(Tags, FieldCounts, QualCases, LatCases, LatDirs, LonCases,
           LonDirs, Eols)

ParseInit ==
    /\ given \in ParseInputs
    /\ sentence = Line(given)
    /\ result = None
    /\ pc = "parse_gpgga"
    /\ clock = 0
    /\ boot = 0
    /\ last_gga_ms = 0
    /\ state = "run"
    /\ uart_rx = << >>
    /\ uart_tx = << >>
    /\ sock_in = << >>
    /\ sock_out = << >>
    /\ sock_open = FALSE
    /\ gnss_queue = << >>
    /\ rtk_line = << >>
    /\ tick = NoTick
    /\ ticks = 0
    /\ gga = << >>
    /\ i = 0
    /\ poller = {}
    /\ cfg = NoConfig
    /\ peer = NoPeer

ParseCall ==
    /\ pc = "parse_gpgga"
    /\ result' = parse_gpgga(sentence)
    /\ pc' = "parsed"
    /\ UNCHANGED << clock, boot, last_gga_ms, state, uart_rx, uart_tx,
                    sock_in, sock_out, sock_open, gnss_queue, rtk_line,
                    sentence, given, tick, ticks, gga, i, poller, cfg, peer >>

ParseNext == ParseCall

ParseSpec == ParseInit /\ [][ParseNext]_vars

-----------------------------------------------------------------------------
(* gnss_task: the relay loop *)

TICKS_PERIOD == 1073741824

REPORT_INTERVAL == 1000

SLEEP_MS == 50

picoW_id == "picoW"

(* time.ticks_ms() at real time c *)
ticks_ms(c) == (boot + c) % TICKS_PERIOD

(* time.ticks_diff(a, b) *)
ticks_diff(a, b) ==
    ((a - b + TICKS_PERIOD \div 2) % TICKS_PERIOD) - TICKS_PERIOD \div 2

(* time.time(), in seconds *)
time_s(c) == c \div 1000

(* a variant that lets OSError through *)
except_Exception_not_OSError == {"ValueError", "IndexError", "UnicodeError"}

(* `except Exception` catches every exception class of the model *)
except_Exception == {"OSError", "ValueError", "IndexError", "UnicodeError"}

except_OSError == {"OSError"}

(* gnss_queue.enqueue(record) *)
enqueue(q, rec) == Append(q, rec)

RECV_SIZE == 512

(* len bytes of the RTCM message src, from its offset `from` on; a byte   *)
(* string is a sequence of such runs, b'' is << >>                         *)
Run(src, from, len) == [src |-> src, from |-> from, len |-> len]

ByteLen(b) == IF b = << >> THEN 0 ELSE b[1].len

(* what the caster sends at a time *)
Blocks == { << Run("rtcm1", 0, 300) >>, << Run("rtcm2", 0, 600) >> }

(* a variant that returns all that is pending *)
recv_whole(buf, n) == [data |-> buf, rest |-> << >>]

(* line 125: sock.recv(n) with buf pending in the socket: the first n     *)
(* bytes at most, the rest stays pending                                  *)
recv(buf, n) ==
    IF ByteLen(buf) <= n THEN [data |-> buf, rest |-> << >>]
    ELSE [data |-> << Run(buf[1].src, buf[1].from, n) >>,
          rest |-> << Run(buf[1].src, buf[1].from + n, buf[1].len - n) >>]

(* what poller.poll(10) can yield with nothing pending in the socket:     *)
(* nothing, an event other than POLLIN, POLLIN at the end of the stream,  *)
(* POLLIN with a failing recv, POLLIN with the bytes `block` pending      *)
PollEvents ==
    { [kind |-> "idle"], [kind |-> "hup"], [kind |-> "eof"],
      [kind |-> "error"] } \cup { [kind |-> "data", block |-> b] : b \in Blocks }

(* with bytes left pending by the last recv, POLLIN is reported at once   *)
TickEvents(buf) ==
    IF buf = << >> THEN PollEvents
    ELSE { [kind |-> "error"], [kind |-> "data", block |-> buf] }

(* the GNSS receiver's lines during the relay; uart_rx names a line by the *)
(* fields it is built from, the bytes on the wire are Line(g)              *)
TaskLines ==
    { MkGiven(GPGGA, 15, << "4" >>, LAT1, N, LON1, E, CRLF),
      MkGiven(GPGGA, 15, << "5" >>, LAT2, S, LON2, W, CRLF),
      MkGiven(GPGGA, 15, << "3" >>, LAT1, N, LON1, E, CRLF),
      MkGiven(GPGGA, 15, << "4" >>, LAT4, N, LON1, E, CRLF),
      MkGiven(GPGGA, 15, << "4" >>, LAT1, N, LON1, E, << BadByte >> \o CRLF),
      MkGiven(GPRMC, 15, << "4" >>, LAT1, N, LON1, E, CRLF) }

SleepSteps == {SLEEP_MS, 1000, 1050}

BootTicks == {TICKS_PERIOD - 1025}

(* a variant that goes on after an empty read *)
recv_step_no_return(ev) ==
    IF ev.kind \in {"idle", "hup", "eof"}
    THEN [exit |-> "none", write |-> << >>, rest |-> << >>,
          raised |-> "none"]
    ELSE IF ev.kind = "error"
    THEN [exit |-> "socket_error", write |-> << >>, rest |-> << >>,
          raised |-> "none"]
    ELSE [exit |-> "none", write |-> recv(ev.block, RECV_SIZE).data,
          rest |-> recv(ev.block, RECV_SIZE).rest, raised |-> "none"]

(* lines 121-134: the socket event of this iteration *)
recv_step(ev) ==
    IF ev.kind \in {"idle", "hup"}
    THEN [exit |-> "none", write |-> << >>, rest |-> << >>,
          raised |-> "none"]
    ELSE LET got == IF ev.kind = "data" THEN recv(ev.block, RECV_SIZE)
                    ELSE [data |-> << >>, rest |-> << >>]
             rtcm_data == IF ev.kind = "error" THEN Raise("OSError")
                          ELSE [kind |-> "bytes", val |-> got.data]
         IN  IF rtcm_data.kind = "raise"
             THEN IF rtcm_data.exc \in except_OSError
                  THEN [exit |-> "socket_error", write |-> << >>,
                        rest |-> << >>, raised |-> "none"]
                  ELSE [exit |-> "none", write |-> << >>, rest |-> << >>,
                        raised |-> rtcm_data.exc]
             ELSE IF rtcm_data.val # << >>
                  THEN [exit |-> "none", write |-> rtcm_data.val,
                        rest |-> got.rest, raised |-> "none"]
                  ELSE [exit |-> "peer_closed", write |-> << >>,
                        rest |-> << >>, raised |-> "none"]

(* a variant that leaves the throttle clock alone after a send *)
report_step_stale_clock(now, last, send_ok) ==
    IF ticks_diff(now, last) > REPORT_INTERVAL
    THEN IF send_ok
         THEN [sent |-> "ok", last |-> last, raised |-> "none"]
         ELSE [sent |-> "failed", last |-> last, raised |-> "none"]
    ELSE [sent |-> "none", last |-> last, raised |-> "none"]

(* a variant that restarts the throttle clock on a failed send too *)
report_step_reset_on_failure(now, last, send_ok) ==
    IF ticks_diff(now, last) > REPORT_INTERVAL
    THEN IF send_ok
         THEN [sent |-> "ok", last |-> now, raised |-> "none"]
         ELSE [sent |-> "failed", last |-> now, raised |-> "none"]
    ELSE [sent |-> "none", last |-> last, raised |-> "none"]

(* lines 140-146: the throttled report of rtk_line *)
report_step(now, last, send_ok) ==
    IF ticks_diff(now, last) > REPORT_INTERVAL
    THEN IF send_ok
         THEN [sent |-> "ok", last |-> now, raised |-> "none"]
         ELSE IF "OSError" \in except_Exception
              THEN [sent |-> "failed", last |-> last, raised |-> "none"]
              ELSE [sent |-> "failed", last |-> last, raised |-> "OSError"]
    ELSE [sent |-> "none", last |-> last, raised |-> "none"]

(* lines 150-151: rtk_line.decode() and parse_gpgga(rtk_str) *)
task_parse(line) ==
    LET rtk_str == decode(line)
    IN  IF rtk_str.kind = "raise" THEN rtk_str ELSE parse_gpgga(rtk_str.val)

(* lines 149-163: the record enqueued for the value res of task_parse *)
queue_step(res, c) ==
    IF res.kind = "raise"
    THEN [result |-> None, pushed |-> FALSE, rec |-> None,
          raised |-> IF res.exc \in except_Exception THEN "none"
                     ELSE res.exc]
    ELSE IF res.kind = "fix"
    THEN [result |-> res, pushed |-> TRUE,
          rec |-> [Pico_ID |-> picoW_id, Date |-> time_s(c),
                   Latitude |-> res.lat, Longitude |-> res.lon],
          raised |-> "none"]
    ELSE [result |-> res, pushed |-> FALSE, rec |-> None, raised |-> "none"]

NoLine == [g |-> NoGiven, line |-> << >>, res |-> None]

(* the first line of the UART buffer: the fields it is built from, its    *)
(* bytes and, for a $GPGGA line, the value of task_parse on it            *)
uart_line(g) ==
    Bind(Line(g),
         LAMBDA line : [g |-> g, line |-> line,
                        res |-> IF startswith(line, GPGGA)
                                THEN task_parse(line) ELSE None])

(* a variant that reads the newest line of the buffer *)
uart_head_newest(rx) ==
    IF rx = << >> THEN NoLine ELSE uart_line(rx[Len(rx)])

uart_head(rx) == IF rx = << >> THEN NoLine ELSE uart_line(Head(rx))

TaskInit ==
    /\ pc = "gnss_task"
    /\ clock = 0
    /\ boot \in BootTicks
    /\ last_gga_ms = 0
    /\ state = "run"
    /\ uart_rx = << >>
    /\ uart_tx = << >>
    /\ sock_in = << >>
    /\ sock_out = << >>
    /\ sock_open = TRUE
    /\ gnss_queue = << >>
    /\ rtk_line = << >>
    /\ result = None
    /\ sentence = << >>
    /\ given = NoGiven
    /\ tick = NoTick
    /\ ticks = 0
    /\ gga = << >>
    /\ i = 0
    /\ poller = {}
    /\ cfg = NoConfig
    /\ peer = NoPeer

(* lines 113-116 *)
TaskStart ==
    /\ pc = "gnss_task"
    /\ poller' = poller \cup {"sock"}
    /\ last_gga_ms' = ticks_ms(clock)
    /\ pc' = "loop"
    /\ UNCHANGED << clock, boot, state, uart_rx, uart_tx, sock_in, sock_out,
                    sock_open, gnss_queue, rtk_line, result, sentence,
                    given, tick, ticks, gga, i, cfg, peer >>

(* lines 119-163: one iteration of the loop, up to the sleep, for the     *)
(* socket event ev, the outcome send_ok of a send and the line `head`     *)
TickStep(ev, send_ok, head) ==
    LET rx == recv_step(ev)
        stopped == rx.exit # "none" \/ rx.raised # "none"
        read == ~stopped /\ uart_rx # << >>
        tagged == read /\ startswith(head.line, GPGGA)
        rep == IF tagged
               THEN report_step(ticks_ms(clock), last_gga_ms, send_ok)
               ELSE [sent |-> "none", last |-> last_gga_ms, raised |-> "none"]
        parsed == tagged /\ rep.raised = "none"
        que == IF parsed THEN queue_step(head.res, clock)
               ELSE [result |-> None, pushed |-> FALSE, rec |-> None,
                     raised |-> "none"]
    IN  /\ (ev.kind = "data" => Len(uart_tx) < MaxBlocks)
        /\ ticks' = ticks + 1
        /\ tick' = [event |-> ev.kind, exit |-> rx.exit, read |-> read,
                    tagged |-> tagged, sent |-> rep.sent, parsed |-> parsed,
                    pushed |-> que.pushed]
        /\ uart_tx' = IF rx.write # << >> THEN Append(uart_tx, rx.write)
                      ELSE uart_tx
        /\ sock_in' = IF ev.kind = "data" THEN rx.rest ELSE sock_in
        /\ uart_rx' = IF read THEN Tail(uart_rx) ELSE uart_rx
        /\ rtk_line' = IF read THEN head.line ELSE << >>
        /\ given' = IF read THEN head.g ELSE NoGiven
        /\ last_gga_ms' = rep.last
        /\ sock_out' = IF rep.sent = "ok"
                       THEN Append(sock_out,
                                   [at |-> clock, data |-> head.line])
                       ELSE sock_out
        /\ sentence' = IF parsed /\ decode(head.line).kind = "str"
                       THEN head.line ELSE << >>
        /\ result' = que.result
        /\ gnss_queue' = IF que.pushed THEN enqueue(gnss_queue, que.rec)
                         ELSE gnss_queue
        /\ pc' = IF rx.exit # "none" THEN "returned"
                 ELSE IF rx.raised # "none" \/ rep.raised # "none"
                         \/ que.raised # "none" THEN "raised"
                 ELSE "sleep"

Tick ==
    /\ pc = "loop"
    /\ ticks < MaxTicks
    /\ \E head \in {uart_head(uart_rx)} :
        \E ev \in TickEvents(sock_in), send_ok \in BOOLEAN :
            TickStep(ev, send_ok, head)
    /\ UNCHANGED << clock, boot, state, sock_open, gga, i, poller, cfg,
                    peer >>

(* line 164: await asyncio.sleep_ms(50); other tasks may run meanwhile.   *)
(* The locals of the finished iteration are dead from here on: each is    *)
(* assigned again before it is read.                                      *)
Sleep ==
    /\ pc = "sleep"
    /\ ticks < MaxTicks
    /\ \E d \in SleepSteps : clock' = clock + d
    /\ pc' = "loop"
    /\ rtk_line' = << >>
    /\ result' = None
    /\ sentence' = << >>
    /\ given' = NoGiven
    /\ tick' = NoTick
    /\ UNCHANGED << boot, last_gga_ms, state, uart_rx, uart_tx, sock_in,
                    sock_out, sock_open, gnss_queue, ticks, gga, i, poller,
                    cfg, peer >>

(* the GNSS receiver emits a line; a line that no iteration within        *)
(* MaxTicks could read is left out                                        *)
UartArrive ==
    /\ pc \in {"loop", "returned"}
    /\ Len(uart_rx) < MaxRx
    /\ Len(uart_rx) < MaxTicks - ticks
    /\ \E g \in TaskLines : uart_rx' = Append(uart_rx, g)
    /\ UNCHANGED << pc, clock, boot, last_gga_ms, state, uart_tx, sock_in,
                    sock_out, sock_open, gnss_queue, rtk_line, result,
                    sentence, given, tick, ticks, gga, i, poller, cfg, peer >>

(* the external controller asks the system to stop *)
SetStop ==
    /\ pc = "sleep"
    /\ state = "run"
    /\ state' = "stop"
    /\ UNCHANGED << pc, clock, boot, last_gga_ms, uart_rx, uart_tx, sock_in,
                    sock_out, sock_open, gnss_queue, rtk_line, result,
                    sentence, given, tick, ticks, gga, i, poller, cfg, peer >>

Next == TaskStart \/ Tick \/ Sleep \/ UartArrive \/ SetStop

Spec == TaskInit /\ [][Next]_vars

-----------------------------------------------------------------------------
(* gnss_setup: the bootstrap wait and the NTRIP handshake *)

CASTER_HOST == "opencaster.nls.fi"

Config(h, p) ==
    [username |-> "user", password |-> "secret", mountpoint |-> "MOUNT",
     host |-> h, port |-> p]

Configs == { Config(CASTER_HOST, 2101), Config("caster.example.org", 2102) }

(* the GNSS receiver's lines during the bootstrap wait *)
SetupLines ==
    { MkGiven(GPGGA, 15, << >>, LAT1, N, LON1, E, CRLF),
      MkGiven(GPGGA, 15, << "x" >>, LAT1, N, LON1, E, CRLF),
      MkGiven(GPGGA, 15, << "0" >>, LAT1, N, LON1, E, CRLF),
      MkGiven(GPGGA, 15, << "0", "0" >>, LAT1, N, LON1, E, CRLF),
      MkGiven(GPGGA, 15, << "1" >>, LAT1, N, LON1, E, CRLF),
      MkGiven(GPGGA, 15, << "4" >>, LAT1, N, LON1, E, CRLF),
      MkGiven(GPGGA, 15, << "4" >>, << >>, N, LON1, E, CRLF),
      MkGiven(GPGGA, 7, << "0" >>, LAT1, N, LON1, E, CRLF),
      MkGiven(GPGGA, 7, << "4" >>, LAT1, N, LON1, E, CRLF),
      MkGiven(GPGGA, 6, << "4" >>, LAT1, N, LON1, E, CRLF),
      MkGiven(GPGGA, 15, << "4" >>, LAT1, N, LON1, E, << BadByte >> \o CRLF),
      MkGiven(GPRMC, 15, << "4" >>, LAT1, N, LON1, E, CRLF) }

(* response lines: a header line, the blank line, end of stream *)
STATUS_LINE == "ICY 200 OK\r\n"

HEADER_LINE == "Server: NTRIP Caster\r\n"

BLANK_LINE == "\r\n"

EOF == ""

Responses ==
    { << STATUS_LINE, BLANK_LINE >>, << STATUS_LINE, HEADER_LINE, BLANK_LINE >>,
      << BLANK_LINE >>, << STATUS_LINE, EOF >>, << EOF >> }

(* line 22: ubinascii.b2a_base64("username:password") *)
b2a_base64(user, pass) == << "base64", user, ":", pass >>

(* lines 32-35: the test applied to a line that starts with $GPGGA *)
gate_fields(gga_str, fields) ==
    IF Len(fields) < 7 THEN item(fields, 6)
    ELSE [kind |-> "bool", gga_str |-> gga_str,
          val |-> /\ fields[7] # << "0" >>
                  /\ fields[3] # << >>
                  /\ fields[5] # << >>]

gate_str(gga_str) ==
    Bind(split(gga_str), LAMBDA fields : gate_fields(gga_str, fields))

setup_gate(line) ==
    IF decode(line).kind = "raise" THEN decode(line)
    ELSE Bind(strip(decode(line).val), LAMBDA gga_str : gate_str(gga_str))

(* the first line of the UART buffer: the fields it is built from, its    *)
(* bytes and, for a $GPGGA line, the value of setup_gate on it            *)
setup_line(g) ==
    Bind(Line(g),
         LAMBDA line : [g |-> g, line |-> line,
                        res |-> IF startswith(line, GPGGA)
                                THEN setup_gate(line) ELSE None])

SetupInit ==
    /\ pc = "acquire"
    /\ cfg \in Configs
    /\ clock = 0
    /\ boot = 0
    /\ last_gga_ms = 0
    /\ state = "run"
    /\ uart_rx = << >>
    /\ uart_tx = << >>
    /\ sock_in = << >>
    /\ sock_out = << >>
    /\ sock_open = FALSE
    /\ gnss_queue = << >>
    /\ rtk_line = << >>
    /\ result = None
    /\ sentence = << >>
    /\ given = NoGiven
    /\ tick = NoTick
    /\ ticks = 0
    /\ gga = << >>
    /\ i = 0
    /\ poller = {}
    /\ peer = NoPeer

(* lines 28-43: one iteration of the wait loop, up to the sleep or break, *)
(* for the line `head` read from the UART                                 *)
SetupRead(head) ==
    /\ uart_rx' = Tail(uart_rx)
    /\ rtk_line' = head.line
    /\ given' = head.g
    /\ IF ~startswith(head.line, GPGGA)
       THEN /\ pc' = "acquire_sleep"
            /\ UNCHANGED << gga, i >>
       ELSE IF head.res.kind = "raise"
       THEN /\ pc' = IF head.res.exc \in except_Exception
                     THEN "acquire_sleep" ELSE "raised"
            /\ UNCHANGED << gga, i >>
       ELSE IF head.res.val
       THEN /\ gga' = head.res.gga_str
            /\ pc' = "request"
            /\ UNCHANGED i
       ELSE /\ i' = i + 1
            /\ pc' = "acquire_sleep"
            /\ UNCHANGED gga

SetupPoll ==
    /\ pc = "acquire"
    /\ IF uart_rx = << >>
       THEN /\ pc' = "acquire_sleep"
            /\ UNCHANGED << uart_rx, rtk_line, given, gga, i >>
       ELSE \E head \in {setup_line(Head(uart_rx))} : SetupRead(head)
    /\ UNCHANGED << clock, boot, last_gga_ms, state, uart_tx, sock_in,
                    sock_out, sock_open, gnss_queue, result, sentence, tick,
                    ticks, poller, cfg, peer >>

(* line 44: await asyncio.sleep(0.5) *)
SetupSleep ==
    /\ pc = "acquire_sleep"
    /\ pc' = "acquire"
    /\ UNCHANGED << clock, boot, last_gga_ms, state, uart_rx, uart_tx,
                    sock_in, sock_out, sock_open, gnss_queue, rtk_line,
                    result, sentence, given, tick, ticks, gga, i, poller,
                    cfg, peer >>

(* lines 47-55: the request text, by its variable parts *)
request(config, token, sent_gga) ==
    [mountpoint |-> config.mountpoint, host |-> config.host,
     authorization |-> token, ntrip_gga |-> sent_gga]

(* lines 58-63: the address the socket is connected to *)
connect_addr(config) == [host |-> CASTER_HOST, port |-> config.port]

(* lines 47-65: resolve, connect and send the request; an OSError of any  *)
(* of the calls is not caught                                              *)
SetupConnect ==
    /\ pc = "request"
    /\ \E step \in {"getaddrinfo", "connect", "send", "ok"} :
        /\ sock_open' = (step # "getaddrinfo")
        /\ peer' = IF step \in {"send", "ok"} THEN connect_addr(cfg)
                   ELSE peer
        /\ IF step = "ok"
           THEN /\ sock_out' =
                      Append(sock_out,
                             request(cfg, b2a_base64(cfg.username,
                                                     cfg.password), gga))
                /\ \E r \in Responses : sock_in' = r
                /\ pc' = "headers"
           ELSE /\ pc' = "raised"
                /\ UNCHANGED << sock_out, sock_in >>
    /\ UNCHANGED << clock, boot, last_gga_ms, state, uart_rx, uart_tx,
                    gnss_queue, rtk_line, result, sentence, given, tick,
                    ticks, gga, i, poller, cfg >>

(* lines 66-72: one sock.readline() of the header loop; the loop ends and  *)
(* gnss_setup returns on the blank line or on an empty read                *)
SetupHeader ==
    /\ pc = "headers"
    /\ sock_in # << >>
    /\ LET line == Head(sock_in)
       IN  /\ sock_in' = Tail(sock_in)
           /\ pc' = IF line = EOF \/ line = BLANK_LINE THEN "setup_returned"
                    ELSE "headers"
    /\ UNCHANGED << clock, boot, last_gga_ms, state, uart_rx, uart_tx,
                    sock_out, sock_open, gnss_queue, rtk_line, result,
                    sentence, given, tick, ticks, gga, i, poller, cfg, peer >>

(* the GNSS receiver emits a line *)
SetupUartArrive ==
    /\ pc = "acquire"
    /\ Len(uart_rx) < MaxRx
    /\ i < MaxI
    /\ \E g \in SetupLines : uart_rx' = Append(uart_rx, g)
    /\ UNCHANGED << pc, clock, boot, last_gga_ms, state, uart_tx, sock_in,
                    sock_out, sock_open, gnss_queue, rtk_line, result,
                    sentence, given, tick, ticks, gga, i, poller, cfg, peer >>

SetupNext ==
    SetupPoll \/ SetupSleep \/ SetupConnect \/ SetupHeader \/ SetupUartArrive

SetupSpec == SetupInit /\ [][SetupNext]_vars

(* the coroutine is scheduled again whenever it can run; the GNSS receiver *)
(* owes nothing                                                            *)
FairSetupSpec ==
    /\ SetupSpec
    /\ WF_vars(SetupPoll)
    /\ WF_vars(SetupSleep)
    /\ WF_vars(SetupConnect)
    /\ WF_vars(SetupHeader)

-----------------------------------------------------------------------------
(* Properties of the relay loop, checked under Spec *)

Decodable(g) == \A k \in 1..Len(g.eol) : g.eol[k] # BadByte

(* a line parse_gpgga accepts after a successful decode *)
Accepted(g) == Decodable(g) /\ WellFormed(g) /\ g.qual.v >= QUALITY_MIN

(* a step that runs one iteration of the loop *)
IsTick == ticks' = ticks + 1

IsPrefix(a, b) == Len(a) <= Len(b) /\ SubSeq(b, 1, Len(a)) = a

(* C1: any two position reports that were sent on the socket are at least *)
(* REPORT_INTERVAL ms apart, whatever lines arrive and whichever sends    *)
(* fail.                                                                  *)
C1_Throttle ==
    \A j \in 1..(Len(sock_out) - 1) :
        sock_out[j + 1].at - sock_out[j].at >= REPORT_INTERVAL

C1_Witness ==
    /\ Len(sock_out) >= 2
    /\ sock_out[2].at - sock_out[1].at = 1050

(* C2: an iteration whose recv returns no bytes ends the loop at once: it *)
(* reads no line, sends nothing, writes nothing to the UART and enqueues  *)
(* nothing, and nothing of the kind happens after the return.             *)
C2_PeerCloseStops ==
    [][ /\ (IsTick /\ tick'.event = "eof") =>
              /\ pc' = "returned"
              /\ ~tick'.read
              /\ UNCHANGED << uart_rx, uart_tx, sock_out, gnss_queue,
                              last_gga_ms >>
        /\ pc = "returned" =>
              /\ pc' = "returned"
              /\ IsPrefix(uart_rx, uart_rx')
              /\ UNCHANGED << uart_tx, sock_out, gnss_queue, last_gga_ms >>
      ]_vars

C2_Witness ==
    /\ pc = "returned"
    /\ tick.event = "eof"
    /\ uart_rx # << >>
    /\ Accepted(Head(uart_rx))

(* the line counts as qualifying by its tag, a numeric quality >= 4 and   *)
(* non-empty coordinate fields alone                                      *)
NamedQualifying(g) ==
    /\ Decodable(g)
    /\ HasTag(g)
    /\ HasQuality(g)
    /\ g.qual.v >= 4
    /\ g.lat.s # << >>
    /\ g.lon.s # << >>

(* C3 as stated: an iteration that reaches the UART enqueues exactly one  *)
(* record if the line it finds there has the $GPGGA tag, a numeric        *)
(* quality >= 4 and non-empty coordinates, and none otherwise.            *)
C3_OnePerQualifying ==
    [][ (IsTick /\ tick'.exit = "none") =>
          Len(gnss_queue') - Len(gnss_queue) =
              IF uart_rx # << >> /\ NamedQualifying(Head(uart_rx))
              THEN 1 ELSE 0 ]_vars

(* C3 amended: an iteration that gets past the socket step enqueues       *)
(* exactly one record if the line it reads decodes and parse_gpgga        *)
(* accepts it, and no record otherwise, whether the report was sent,      *)
(* failed or was throttled; an iteration ended by the socket step         *)
(* enqueues nothing.                                                      *)
C3_OnePerAccepted ==
    [][ IsTick =>
          /\ Len(gnss_queue') - Len(gnss_queue) =
                IF tick'.exit = "none" /\ uart_rx # << >>
                   /\ Accepted(Head(uart_rx))
                THEN 1 ELSE 0
          /\ IsPrefix(gnss_queue, gnss_queue')
          /\ tick'.pushed =>
                /\ gnss_queue'[Len(gnss_queue')].Latitude
                       = HandLat(Head(uart_rx))
                /\ gnss_queue'[Len(gnss_queue')].Longitude
                       = HandLon(Head(uart_rx)) ]_vars

C3_Witness ==
    /\ tick.pushed
    /\ tick.sent = "none"
    /\ Len(gnss_queue) >= 2
    /\ Len(sock_out) >= 1

(* C4 as stated: once the stop signal is set, no further iteration of the *)
(* loop runs.                                                             *)
C4_StopHonoured == [][ state = "stop" => ~IsTick ]_vars

(* C10: a failed report send, a decode failure and a rejected line leave  *)
(* the loop running: the iteration still parses the line, enqueues the    *)
(* record if the line is accepted, and goes to the sleep; the loop ends   *)
(* only on an empty read or an OSError of the socket step, never by an    *)
(* uncaught exception.                                                    *)
C10_SoftFailures ==
    [][ IsTick =>
          /\ pc' \in {"sleep", "returned"}
          /\ pc' = "returned" <=> tick'.exit \in {"peer_closed", "socket_error"}
          /\ tick'.exit = "peer_closed" <=> tick'.event = "eof"
          /\ tick'.exit = "socket_error" <=> tick'.event = "error"
          /\ tick'.sent = "failed" =>
                /\ pc' = "sleep"
                /\ tick'.parsed
                /\ tick'.pushed <=> Accepted(Head(uart_rx))
          /\ tick'.tagged => tick'.parsed ]_vars

C10_Witness ==
    /\ pc = "sleep"
    /\ tick.sent = "failed"
    /\ tick.pushed
    /\ ticks < MaxTicks

(* the byte string a followed by b, for b the rest of a's message or b'' *)
Joined(a, b) ==
    IF b = << >> THEN a
    ELSE IF a # << >> /\ a[1].src = b[1].src
            /\ a[1].from + a[1].len = b[1].from
    THEN << Run(a[1].src, a[1].from, a[1].len + b[1].len) >>
    ELSE << >>

(* the time of the last report that was sent, the start of the task if    *)
(* none was                                                               *)
LastSendAt == IF sock_out = << >> THEN 0 ELSE sock_out[Len(sock_out)].at

Elapsed == clock - LastSendAt

(* C14: the socket step comes before the report step of an iteration: an  *)
(* exit taken in the socket step leaves the UART line unread and unsent;  *)
(* records enter the queue in the order their lines were read: an         *)
(* iteration reads the oldest line of the UART buffer and no other, and   *)
(* the one record it may append, at the end of the queue, is that line's. *)
C14_Ordering ==
    [][ IsTick =>
          /\ tick'.exit # "none" =>
                (~tick'.read /\ UNCHANGED << uart_rx, sock_out, gnss_queue >>)
          /\ uart_rx' = IF tick'.read THEN Tail(uart_rx) ELSE uart_rx
          /\ IsPrefix(gnss_queue, gnss_queue')
          /\ Len(gnss_queue') <= Len(gnss_queue) + 1
          /\ Len(gnss_queue') = Len(gnss_queue) + 1 =>
                /\ tick'.read
                /\ gnss_queue'[Len(gnss_queue')].Latitude
                       = HandLat(Head(uart_rx))
                /\ gnss_queue'[Len(gnss_queue')].Longitude
                       = HandLon(Head(uart_rx)) ]_vars

C14_Witness ==
    /\ Len(gnss_queue) = 2
    /\ gnss_queue[1].Latitude = 48 * 60000 + 7038
    /\ gnss_queue[2].Latitude = -(60 * 60000 + 30500)
    /\ tick.event = "data"
    /\ tick.pushed
    /\ uart_rx # << >>

(* C15: the UART output grows only by the block an iteration received    *)
(* from the socket, appended whole in that iteration; the block is 1 to   *)
(* 512 bytes long and, followed by what the recv left pending in the      *)
(* socket, it is what was pending or arrived: no byte is dropped,         *)
(* repeated, altered or kept by the task.                                 *)
C15_VerbatimRelay ==
    [][ /\ uart_tx' # uart_tx => (IsTick /\ tick'.event = "data")
        /\ (IsTick /\ tick'.event # "data") => sock_in' = sock_in
        /\ (IsTick /\ tick'.event = "data") =>
              /\ Len(uart_tx') = Len(uart_tx) + 1
              /\ IsPrefix(uart_tx, uart_tx')
              /\ ByteLen(uart_tx'[Len(uart_tx')]) \in 1..512
              /\ Joined(uart_tx'[Len(uart_tx')], sock_in')
                     \in IF sock_in # << >> THEN {sock_in} ELSE Blocks
      ]_vars

C15_Witness ==
    /\ uart_tx = << << Run("rtcm2", 0, 512) >>, << Run("rtcm2", 512, 88) >> >>
    /\ sock_in = << >>

(* C16 as stated: an iteration that reads a $GPGGA line 1000 ms or more   *)
(* after the last report sends the line and restarts the throttle clock.  *)
C16_SendAtInterval ==
    [][ (IsTick /\ tick'.tagged /\ Elapsed >= 1000) =>
          /\ tick'.sent # "none"
          /\ tick'.sent = "ok" =>
                /\ sock_out' = Append(sock_out,
                                       [at |-> clock,
                                        data |-> Line(Head(uart_rx))])
                /\ last_gga_ms' = ticks_ms(clock) ]_vars

(* C17 as stated: every report sent by the loop is a line whose quality   *)
(* field is an integer >= 4.                                              *)
C17_ReportsOnlyRtk ==
    [][ (IsTick /\ tick'.sent = "ok") =>
          /\ HasQuality(Head(uart_rx))
          /\ Head(uart_rx).qual.v >= 4 ]_vars

(* C18: inside the loop last_gga_ms changes only in an iteration whose    *)
(* send succeeded, to the time of that iteration; a $GPGGA line is tried  *)
(* exactly when more than 1000 ms have passed since the last successful   *)
(* send, so a failed send leaves the next line due at once.               *)
C18_ThrottleClockFrame ==
    [][ pc # "gnss_task" =>
          /\ last_gga_ms' # last_gga_ms => (IsTick /\ tick'.sent = "ok")
          /\ (IsTick /\ tick'.sent = "ok") =>
                last_gga_ms' = (boot + clock) % TICKS_PERIOD
          /\ (IsTick /\ tick'.tagged) =>
                (tick'.sent # "none" <=> Elapsed > 1000) ]_vars

C18_Witness ==
    /\ tick.sent = "failed"
    /\ Elapsed = 1050
    /\ last_gga_ms = (boot + LastSendAt) % TICKS_PERIOD
    /\ ticks < MaxTicks

(* C19: an iteration takes one line at most from the UART buffer, the     *)
(* oldest, and nothing else does; a line taken that does not start with   *)
(* $GPGGA changes neither the socket output, the queue nor last_gga_ms.   *)
C19_OneLinePerTick ==
    [][ /\ IsTick => uart_rx' = IF tick'.read THEN Tail(uart_rx) ELSE uart_rx
        /\ ~IsTick => IsPrefix(uart_rx, uart_rx')
        /\ (IsTick /\ tick'.read /\ ~StartsWithTag(Head(uart_rx))) =>
              /\ ~tick'.tagged
              /\ UNCHANGED << sock_out, gnss_queue, last_gga_ms >> ]_vars

C19_Witness ==
    /\ tick.read
    /\ ~tick.tagged
    /\ tick.event = "data"
    /\ Len(uart_rx) = 1
    /\ Elapsed > 1000

(* C11 as stated: once the loop has returned, the socket is closed and    *)
(* its poll registration is removed.                                      *)
C11_ReleasedOnReturn ==
    pc = "returned" => (~sock_open /\ "sock" \notin poller)

-----------------------------------------------------------------------------
(* Properties of gnss_setup, checked under SetupSpec and FairSetupSpec *)

(* C5 as stated: the bootstrap wait always comes to an end. *)
C5_AcquireTerminates == <>(pc \notin {"acquire", "acquire_sleep"})

(* C6 as stated: the accepted sentence starts with $GPGGA, its quality    *)
(* field is an integer other than 0 and its coordinate fields are not     *)
(* empty.                                                                 *)
C6_BootstrapGate ==
    gga # << >> =>
        /\ StartsWithTag(given)
        /\ HasQuality(given)
        /\ given.qual.v # 0
        /\ given.lat.s # << >>
        /\ given.lon.s # << >>

(* C12 as stated: gnss_setup returns only from the read of the blank     *)
(* line, after exactly one request was sent and with nothing written to   *)
(* the UART; an end of stream before the blank line returns no session.   *)
C12_ReturnsAfterBlankLine ==
    [][ (pc = "headers" /\ pc' = "setup_returned") =>
          /\ Head(sock_in) = BLANK_LINE
          /\ Len(sock_out') = 1
          /\ uart_tx' = << >> ]_vars

(* C13 as stated: the socket is connected to the host and the port of     *)
(* NTRIP_CONFIG, the host named in the Host header of the request.        *)
C13_ConnectsToConfigured ==
    peer # NoPeer =>
        /\ peer.host = cfg.host
        /\ peer.port = cfg.port
        /\ \A k \in 1..Len(sock_out) : sock_out[k].host = peer.host

-----------------------------------------------------------------------------
(* Properties of parse_gpgga, checked under ParseSpec *)

C8_MalformedIsNone ==
    pc = "parsed" =>
        /\ result.kind \in {"fix", "None"}
        /\ ~WellFormed(given) => result = None

C8_Witness ==
    /\ pc = "parsed"
    /\ given.tag = GPGGA
    /\ given.n = 6
    /\ given.eol = << >>
    /\ result = None

ScenarioGiven ==
    MkGiven(GPGGA, 15, << "4" >>, LAT1, N, LON1, E, << >>)

(* C9: the latitude of a fix is the first two characters as degrees plus  *)
(* the rest as minutes / 60, negated exactly for 'S'; the longitude is    *)
(* the first three characters as degrees plus the rest as minutes / 60,   *)
(* negated exactly for 'W'; 4807.038,N / 01131.000,E gives 48 deg 7.038   *)
(* min north and 11 deg 31.000 min east.                                  *)
C9_Coordinates ==
    pc = "parsed" =>
        /\ result.kind = "fix" =>
              /\ result.lat = HandLat(given)
              /\ result.lon = HandLon(given)
        /\ given = ScenarioGiven =>
              /\ result.kind = "fix"
              /\ result.lat = 48 * 60000 + 7038
              /\ result.lon = 11 * 60000 + 31000

C9_Witness ==
    /\ pc = "parsed"
    /\ result.kind = "fix"
    /\ given.latdir = S
    /\ given.londir = W
    /\ result.lat = -(60 * 60000 + 30500)
    /\ result.lon = -(123 * 60000 + 45678)

====
